---------------------------- MODULE Spec2Model ----------------------------
(***************************************************************************)
(* A model of the Confluence Gen AI agent: the content source adapter      *)
(* (src/confluence_connector.py) and the orchestrator's query path         *)
(* (src/genai_agent.py).  Text is modelled by TLA+ strings, on which TLC   *)
(* evaluates Len, \o and SubSeq; the bullet character U+2022 of the fixed  *)
(* messages is written "*" because a module is ASCII.                      *)
(***************************************************************************)
EXTENDS Integers, Sequences, FiniteSets, TLC

(***************************************************************************)
(* Bounds of the model.                                                    *)
(***************************************************************************)
MaxRecords == 2
MaxCalls == 2

\* program constants
SnippetLen == 300
PageContentLen == 500
SpacesDefaultLimit == 100
PagesDefaultLimit == 50
SearchDefaultLimit == 20
SearchPreviewLen == 200
PagePreviewLen == 150
SpaceDescLen == 100

(***************************************************************************)
(* Python values: None, str, int, and the Absent marker of a dict key that *)
(* is not present.                                                         *)
(***************************************************************************)
PyNone == [t |-> "none"]
Absent == [t |-> "absent"]
S(s) == [t |-> "str", s |-> s]
I(n) == [t |-> "int", n |-> n]

\* bool(v): None, "" and 0 are falsy
Truthy(v) ==
    CASE v.t = "str" -> v.s # ""
      [] v.t = "int" -> v.n # 0
      [] OTHER -> FALSE

\* str(v), as an f-string renders a value
PyStr(v) ==
    CASE v.t = "str" -> v.s
      [] v.t = "int" -> ToString(v.n)
      [] OTHER -> "None"

\* dict.get(key, default) on a dict given as a record of values or Absent
DictGet(d, k, default) == IF d[k].t = "absent" THEN default ELSE d[k]

(***************************************************************************)
(* Strings.                                                                *)
(***************************************************************************)
Min(A) == CHOOSE m \in A : \A n \in A : m <= n

Ch(s, i) == SubSeq(s, i, i)

\* s[:n]
Take(s, n) == SubSeq(s, 1, IF Len(s) < n THEN Len(s) ELSE n)

\* pat in s
Contains(s, pat) ==
    \E i \in 1..(Len(s) - Len(pat) + 1) : SubSeq(s, i, i + Len(pat) - 1) = pat

UpperLetters == "ABCDEFGHIJKLMNOPQRSTUVWXYZ"
LowerLetters == "abcdefghijklmnopqrstuvwxyz"

\* the lower-case letter of each upper-case letter
LowerMap ==
    [c \in { Ch(UpperLetters, i) : i \in 1..Len(UpperLetters) } |->
       Ch(LowerLetters, CHOOSE i \in 1..Len(UpperLetters) : Ch(UpperLetters, i) = c)]

LowerCh(c) == IF c \in DOMAIN LowerMap THEN LowerMap[c] ELSE c

\* s.lower(), over the characters lo..hi of s (halving keeps the evaluation
\* shallow on long texts)
RECURSIVE LowerRange(_, _, _)
LowerRange(s, lo, hi) ==
    IF lo > hi THEN ""
    ELSE IF lo = hi THEN LowerCh(Ch(s, lo))
    ELSE LowerRange(s, lo, (lo + hi) \div 2) \o LowerRange(s, (lo + hi) \div 2 + 1, hi)

\* s.lower()
Lower(s) == LowerRange(s, 1, Len(s))

\* s.rstrip('/')
RECURSIVE RStripSlash(_)
RStripSlash(s) ==
    IF Len(s) > 0 /\ Ch(s, Len(s)) = "/" THEN RStripSlash(SubSeq(s, 1, Len(s) - 1)) ELSE s

\* where a match of the pattern '<[^<]+?>' that starts at i ends, 0 when none
\* starts there: '<', one or more characters other than '<' (as few as
\* possible), then '>'.  The match ends at the first '>' from i + 2 on,
\* provided no '<' lies between; a later '>' would have that '<' before it too.
TagEnd(s, i) ==
    IF Ch(s, i) # "<" THEN 0
    ELSE IF \E j \in (i + 2)..Len(s) : Ch(s, j) = ">"
    THEN LET j == CHOOSE j \in (i + 2)..Len(s) :
                      /\ Ch(s, j) = ">"
                      /\ \A k \in (i + 2)..(j - 1) : Ch(s, k) # ">"
         IN  IF \A k \in (i + 1)..(j - 1) : Ch(s, k) # "<" THEN j ELSE 0
    ELSE 0

\* the positions of s where a match starts
TagStarts(s) == { i \in 1..Len(s) : TagEnd(s, i) > 0 }

\* the left-to-right scan of re.sub from position from on: the text up to the
\* next match is kept, the match is dropped, the scan goes on behind it
RECURSIVE KeepFrom(_, _, _)
KeepFrom(s, starts, from) ==
    LET later == { i \in starts : i >= from }
    IN  IF later = {} THEN SubSeq(s, from, Len(s))
        ELSE SubSeq(s, from, Min(later) - 1)
               \o KeepFrom(s, starts, TagEnd(s, Min(later)) + 1)

\* re.sub('<[^<]+?>', '', content)
StripTags(s) == KeepFrom(s, TagStarts(s), 1)

\* s * n
RECURSIVE Repeat(_, _)
Repeat(s, n) ==
    IF n = 0 THEN ""
    ELSE IF n = 1 THEN s
    ELSE Repeat(s, n \div 2) \o Repeat(s, n - n \div 2)

(***************************************************************************)
(* State.  The adapter (ConfluenceConnector): url, default_space and the   *)
(* client handle confluence (0 is None, n > 0 the n-th handle created).    *)
(* The agent (ConfluenceGenAIAgent): agent is TRUE once __init__ returned, *)
(* model and client are its fields.  One query(): pc is the position in    *)
(* its body, the other variables its locals, each held from the step that  *)
(* assigns it to the last step that reads it.  result is what the last     *)
(* top-level call gave its caller.  The remaining variables record what    *)
(* was called: steps, calls and the call counts of the last query, the     *)
(* totals over the whole run.                                              *)
(***************************************************************************)
VARIABLES
    url, default_space, confluence, created,
    agent, model, client,
    pc, user_query, analysis_response, analysis, action, fetched, branch,
    confluence_data,
    error_msg, raised_by, result,
    steps, calls, classify_calls, synth_calls,
    n_calls, total_classify, total_synth, total_data

adapterVars == <<url, default_space, confluence, created>>
agentVars == <<agent, model, client>>
localVars == <<user_query, analysis_response, analysis, action, fetched, branch,
               confluence_data>>
obsVars == <<error_msg, raised_by, result, steps, calls, classify_calls, synth_calls>>
totalVars == <<n_calls, total_classify, total_synth, total_data>>
vars == <<adapterVars, agentVars, pc, localVars, obsVars, totalVars>>

(***************************************************************************)
(* The environment: configuration values and what the two remote services  *)
(* answer.                                                                 *)
(***************************************************************************)
BaseUrls == {"https://x.atlassian.net/wiki", "https://x.atlassian.net/wiki/"}
DefaultSpaces == {PyNone, S("DOCS")}
ModelNames == {"gpt-3.5-turbo"}

\* texts of the errors the content source raises
ConfluenceErrors ==
    { "401 Client Error: Unauthorized for url",
      "404 Client Error: Not Found for url",
      "Max retries exceeded with url",
      "Read timed out." }

\* texts of the errors the language-model service raises
ModelErrors ==
    { "Error code: 429 - insufficient_quota",
      "You exceeded your current quota",
      "insufficient_quota: 401 Unauthorized",
      "INSUFFICIENT_QUOTA for model gpt-4 (404)",
      "Error code: 401 - Incorrect API key",
      "Error code: 404 - The model does not exist",
      "Connection error." }

LongText == Repeat("0123456789", 30) \o "tail"

RawSpaces ==
    { [key |-> S("DOCS"), name |-> S("Documentation"), type |-> S("global"),
       description |-> S("Product docs"), webui |-> S("/spaces/DOCS")],
      [key |-> S("TMP"), name |-> Absent, type |-> Absent,
       description |-> S(Take(LongText, 120)), webui |-> Absent] }

RawPages ==
    { [id |-> S("101"), title |-> S("Deploy guide"), version |-> I(3),
       body |-> S("<p>Run <b>make</b> deploy</p>"), webui |-> S("/spaces/DOCS/pages/101")],
      [id |-> S("103"), title |-> Absent, version |-> Absent,
       body |-> S(LongText \o LongText), webui |-> Absent] }

RawHits ==
    { [id |-> S("105"), title |-> S("Deploy guide"), type |-> S("page"),
       space_key |-> S("DOCS"), space_name |-> S("Documentation"), version |-> I(3),
       body |-> S("<p>Run <b>make</b> " \o LongText \o "</p>"),
       webui |-> S("/spaces/DOCS/pages/105")],
      [id |-> S("104"), title |-> Absent, type |-> Absent,
       space_key |-> Absent, space_name |-> Absent, version |-> Absent,
       body |-> S("if a<b then <a<b>c>"), webui |-> Absent] }

\* the stored bodies the content source holds, and each with its tags removed
\* (re.sub applied once per body)
StoredBodies == { r.body.s : r \in RawPages \cup RawHits } \cup {""}
StrippedBodies == [b \in StoredBodies |-> StripTags(b)]

\* the sequences of at most n elements of A
RECURSIVE SeqsUpTo(_, _)
SeqsUpTo(A, n) ==
    IF n = 0 THEN {<<>>}
    ELSE LET P == SeqsUpTo(A, n - 1)
         IN  P \cup { Append(p, a) : p \in { q \in P : Len(q) = n - 1 }, a \in A }

\* what the content source does with one adapter operation: building the
\* client raises, or the data call raises, or the data call returns data
RemoteAnswers(Raw) ==
    { [connect_fails |-> TRUE, call_fails |-> FALSE, err |-> e, data |-> <<>>] :
        e \in ConfluenceErrors }
      \cup { [connect_fails |-> FALSE, call_fails |-> TRUE, err |-> e, data |-> <<>>] :
               e \in ConfluenceErrors }
      \cup { [connect_fails |-> FALSE, call_fails |-> FALSE, err |-> "", data |-> d] :
               d \in SeqsUpTo(Raw, MaxRecords) }

\* the answers to get_all_spaces, get_all_pages_from_space and cql, to the
\* building of the client alone, and to the calls that return one page or none
SpaceAnswers == RemoteAnswers(RawSpaces)
PageAnswers == RemoteAnswers(RawPages)
HitAnswers == RemoteAnswers(RawHits)
ConnectAnswers == { r \in SpaceAnswers : r.data = <<>> }
OnePageAnswers == { r \in PageAnswers : Len(r.data) <= 1 }

(***************************************************************************)
(* ConfluenceConnector.                                                    *)
(***************************************************************************)
Returned(v, h) == [raised |-> FALSE, err |-> "", val |-> v, handle |-> h]
Raised(e, h) == [raised |-> TRUE, err |-> e, val |-> PyNone, handle |-> h]

\* connect(): a new client replaces self.confluence unless building it
\* raises; a failure of the verifying get_all_spaces call is only logged
Connect(remote) ==
    IF remote.connect_fails THEN Raised(remote.err, confluence)
    ELSE Returned(PyNone, created + 1)

\* EnsureConnected that connects whether or not a client exists
ConnectAlways(remote) == Connect(remote)

\* "if not self.confluence: self.connect()"
EnsureConnected(remote) ==
    IF confluence # 0 THEN Returned(PyNone, confluence) ELSE Connect(remote)

SpaceRecord(raw) ==
    [key |-> DictGet(raw, "key", PyNone),
     name |-> DictGet(raw, "name", PyNone),
     type |-> DictGet(raw, "type", PyNone),
     description |-> DictGet(raw, "description", S("")),
     page_count |-> DictGet(raw, "webui", S(""))]

\* get_spaces(limit)
GetSpaces(limit, remote) ==
    LET c == EnsureConnected(remote)
    IN  IF c.raised THEN c
        ELSE IF remote.call_fails THEN Raised(remote.err, c.handle)
        ELSE Returned([i \in 1..Len(remote.data) |-> SpaceRecord(remote.data[i])], c.handle)

\* PageUrl with the base URL taken as configured
PageUrlAsConfigured(raw) == S(url \o DictGet(raw, "webui", S("")).s)

\* url: self.url.rstrip('/') + the relative web link
PageUrl(raw) == S(RStripSlash(url) \o DictGet(raw, "webui", S("")).s)

PageRecord(raw, space_key) ==
    [id |-> DictGet(raw, "id", PyNone),
     title |-> DictGet(raw, "title", PyNone),
     space |-> space_key,
     version |-> DictGet(raw, "version", I(0)),
     content |-> S(Take(DictGet(raw, "body", S("")).s, PageContentLen)),
     url |-> PageUrl(raw)]

\* get_pages_from_space(space_key, limit)
GetPagesFromSpace(space_key, limit, remote) ==
    LET c == EnsureConnected(remote)
    IN  IF c.raised THEN c
        ELSE IF remote.call_fails THEN Raised(remote.err, c.handle)
        ELSE Returned([i \in 1..Len(remote.data) |-> PageRecord(remote.data[i], space_key)],
                      c.handle)

\* the CQL query of search_content
CqlQuery(query, space_key) ==
    "text ~ \"" \o PyStr(query) \o "\""
      \o (IF Truthy(space_key) THEN " AND space = " \o PyStr(space_key) ELSE "")

\* the snippet: the stored body with the tags removed, first 300 characters
Snippet(body) == Take(StrippedBodies[body], SnippetLen)

SearchRecord(raw) ==
    [id |-> DictGet(raw, "id", PyNone),
     title |-> DictGet(raw, "title", PyNone),
     type |-> DictGet(raw, "type", S("")),
     space |-> DictGet(raw, "space_key", S("")),
     space_name |-> DictGet(raw, "space_name", S("")),
     content |-> S(Snippet(DictGet(raw, "body", S("")).s)),
     url |-> PageUrl(raw),
     version |-> DictGet(raw, "version", I(0))]

\* search_content(query, space_key, max_results)
SearchContent(query, space_key, max_results, remote) ==
    LET c == EnsureConnected(remote)
    IN  IF c.raised THEN c
        ELSE IF remote.call_fails THEN Raised(remote.err, c.handle)
        ELSE Returned([i \in 1..Len(remote.data) |-> SearchRecord(remote.data[i])], c.handle)

\* get_page_content(page_id): the lazy connect is outside the try block, the
\* call and what follows inside it; remote.data is <<>> for no such page
GetPageContent(page_id, remote) ==
    LET c == EnsureConnected(remote)
    IN  IF c.raised THEN c
        ELSE IF remote.call_fails THEN Returned(PyNone, c.handle)
        ELSE IF remote.data = <<>> THEN Returned(PyNone, c.handle)
        ELSE Returned(S(StrippedBodies[DictGet(remote.data[1], "body", S("")).s]), c.handle)

\* get_page_by_title(space_key, title)
GetPageByTitle(space_key, title, remote) ==
    LET c == EnsureConnected(remote)
    IN  IF c.raised THEN c
        ELSE IF remote.call_fails THEN Returned(PyNone, c.handle)
        ELSE IF remote.data = <<>> THEN Returned(PyNone, c.handle)
        ELSE Returned([id |-> DictGet(remote.data[1], "id", PyNone),
                       title |-> DictGet(remote.data[1], "title", PyNone),
                       space |-> space_key,
                       url |-> PageUrl(remote.data[1])], c.handle)

(***************************************************************************)
(* The record formatters of ConfluenceGenAIAgent.                          *)
(***************************************************************************)
SearchEntry(i, r) ==
    "\n" \o ToString(i) \o ". Title: " \o PyStr(DictGet(r, "title", S("N/A"))) \o "\n"
      \o "   Space: "
      \o PyStr(DictGet(r, "space_name", DictGet(r, "space", S("N/A")))) \o "\n"
      \o "   Type: " \o PyStr(DictGet(r, "type", S("N/A"))) \o "\n"
      \o (IF Truthy(DictGet(r, "content", PyNone))
          THEN "   Content: " \o Take(DictGet(r, "content", S("")).s, SearchPreviewLen)
                 \o "...\n"
          ELSE "")
      \o (IF Truthy(DictGet(r, "url", PyNone))
          THEN "   URL: " \o PyStr(DictGet(r, "url", S("N/A"))) \o "\n"
          ELSE "")

PageEntry(i, r) ==
    "\n" \o ToString(i) \o ". " \o PyStr(DictGet(r, "title", S("N/A"))) \o "\n"
      \o "   ID: " \o PyStr(DictGet(r, "id", S("N/A"))) \o "\n"
      \o (IF Truthy(DictGet(r, "content", PyNone))
          THEN "   Preview: " \o Take(DictGet(r, "content", S("")).s, PagePreviewLen)
                 \o "...\n"
          ELSE "")
      \o (IF Truthy(DictGet(r, "url", PyNone))
          THEN "   URL: " \o PyStr(DictGet(r, "url", S("N/A"))) \o "\n"
          ELSE "")

SpaceEntry(i, r) ==
    "\n" \o ToString(i) \o ". " \o PyStr(DictGet(r, "name", S("N/A")))
      \o " (Key: " \o PyStr(DictGet(r, "key", S("N/A"))) \o ")\n"
      \o (IF Truthy(DictGet(r, "description", PyNone))
          THEN "   Description: " \o Take(DictGet(r, "description", S("")).s, SpaceDescLen)
                 \o "...\n"
          ELSE "")
      \o "   Type: " \o PyStr(DictGet(r, "type", S("N/A"))) \o "\n"

\* the body of the enumerate(..., 1) loop of the formatter named by kind
Entry(kind, i, r) ==
    CASE kind = "search" -> SearchEntry(i, r)
      [] kind = "pages" -> PageEntry(i, r)
      [] kind = "spaces" -> SpaceEntry(i, r)

\* Entries with every entry given the number 1
RECURSIVE EntriesUnnumbered(_, _, _)
EntriesUnnumbered(kind, rs, i) ==
    IF i > Len(rs) THEN "" ELSE Entry(kind, 1, rs[i]) \o EntriesUnnumbered(kind, rs, i + 1)

\* the entries of rs from the i-th on, concatenated
RECURSIVE Entries(_, _, _)
Entries(kind, rs, i) ==
    IF i > Len(rs) THEN "" ELSE Entry(kind, i, rs[i]) \o Entries(kind, rs, i + 1)

\* _format_search_results(results)
FormatSearchResults(results) ==
    IF Len(results) = 0 THEN "No results found."
    ELSE "Search Results:\n" \o Entries("search", results, 1)

\* _format_pages(pages, space_key)
FormatPages(pages, space_key) ==
    IF Len(pages) = 0 THEN "No pages found in space: " \o PyStr(space_key)
    ELSE "Pages from space '" \o PyStr(space_key) \o "':\n" \o Entries("pages", pages, 1)

\* _format_spaces(spaces)
FormatSpaces(spaces) ==
    IF Len(spaces) = 0 THEN "No spaces found."
    ELSE "Available Confluence Spaces:\n" \o Entries("spaces", spaces, 1)

\* SpaceLines that stops after one space
SpaceLinesFirstOnly(spaces, i) ==
    IF i > Len(spaces) THEN ""
    ELSE "- " \o PyStr(spaces[i]["name"]) \o " (Key: " \o PyStr(spaces[i]["key"]) \o ")\n"

\* the lines of the get_pages branch that has no space key
RECURSIVE SpaceLines(_, _)
SpaceLines(spaces, i) ==
    IF i > Len(spaces) THEN ""
    ELSE "- " \o PyStr(spaces[i]["name"]) \o " (Key: " \o PyStr(spaces[i]["key"]) \o ")\n"
           \o SpaceLines(spaces, i + 1)

NoSpaceKeyMessage == "Space key not specified. Available spaces:\n"

(***************************************************************************)
(* ConfluenceGenAIAgent.query: the texts.                                  *)
(***************************************************************************)
QuotaMessage ==
    "I encountered a quota/billing issue with the OpenAI API.\n\n"
      \o "This usually means:\n"
      \o "1. Your free trial credits have been used up\n"
      \o "2. You need to add a payment method\n"
      \o "3. You've reached your spending limit\n"
      \o "4. You're making requests too quickly (rate limit)\n\n"
      \o "To fix this:\n"
      \o "* Go to https://platform.openai.com/account/billing and add a payment method\n"
      \o "* Check your usage at https://platform.openai.com/account/usage\n"
      \o "* Increase spending limits if needed\n"
      \o "* Wait a few minutes if it's a rate limit issue\n\n"
      \o "See FIX_OPENAI_QUOTA.md for detailed instructions."

AuthMessage ==
    "I encountered an authentication error with the OpenAI API.\n\n"
      \o "Please check:\n"
      \o "* Your OPENAI_API_KEY in the .env file is correct\n"
      \o "* The API key hasn't been revoked\n"
      \o "* You're using a valid API key from https://platform.openai.com/api-keys"

ModelMessage ==
    "I encountered an error with the AI model.\n\n"
      \o "Please check:\n"
      \o "* Your OPENAI_MODEL in .env is a valid model name (e.g., gpt-3.5-turbo)\n"
      \o "* You have access to the specified model\n"
      \o "* See FIX_MODEL_ERROR.md for model options"

GenericPrefix == "I encountered an error while processing your query: "

\* ErrorAnswer with the 401 test made before the quota test
ErrorAnswerAuthFirst(e) ==
    LET low == Lower(e)
    IN  IF Contains(e, "401") \/ Contains(low, "unauthorized")
        THEN AuthMessage
        ELSE IF Contains(e, "429") \/ Contains(low, "quota")
        THEN QuotaMessage
        ELSE IF Contains(e, "404") \/ Contains(low, "model")
        THEN ModelMessage
        ELSE GenericPrefix \o e

\* the except branch of query: the answer for an error text
ErrorAnswer(e) ==
    LET low == Lower(e)
    IN  IF Contains(e, "429") \/ Contains(low, "quota") \/ Contains(low, "insufficient_quota")
        THEN QuotaMessage
        ELSE IF Contains(e, "401") \/ Contains(low, "unauthorized")
        THEN AuthMessage
        ELSE IF Contains(e, "404") \/ Contains(low, "model")
        THEN ModelMessage
        ELSE GenericPrefix \o e

(***************************************************************************)
(* What the model service answers to the classification call: a text that  *)
(* is no JSON, no content at all, a JSON array, or a JSON object with any  *)
(* of the four keys absent, null or set.                                   *)
(***************************************************************************)
UserQueries == {"what spaces do we have?", "deployment runbook"}
ModelAnswers == {"Here is what I found in Confluence."}

ActionValues ==
    {Absent, PyNone, S("get_spaces"), S("get_pages"), S("search"), S("general"),
     S("summarize")}
SpaceKeyValues == {Absent, PyNone, S("ENG")}
SearchQueryValues == {Absent, PyNone, S(""), S("deployment")}
MaxResultsValues == {Absent, I(10)}

Decisions ==
    [action : ActionValues, space_key : SpaceKeyValues,
     search_query : SearchQueryValues, max_results : MaxResultsValues]

ClassifierContents ==
    {[kind |-> "text"], [kind |-> "none"], [kind |-> "array"]}
      \cup {[kind |-> "object", obj |-> d] : d \in Decisions}

\* json.loads(content) followed by analysis.get("action", "general")
JsonLoads(content) ==
    CASE content.kind = "text" -> Raised("Expecting value: line 1 column 1 (char 0)", 0)
      [] content.kind = "none" ->
           Raised("the JSON object must be str, bytes or bytearray, not NoneType", 0)
      [] content.kind = "array" -> Raised("'list' object has no attribute 'get'", 0)
      [] OTHER -> Returned(content.obj, 0)

\* the texts of the exceptions query can catch, and the answer for each
ErrorTexts ==
    ModelErrors \cup ConfluenceErrors
      \cup { JsonLoads([kind |-> k]).err : k \in {"text", "none", "array"} }
ErrorAnswers == [e \in ErrorTexts |-> ErrorAnswer(e)]

ActionOf(a) == DictGet(a, "action", S("general"))

(***************************************************************************)
(* The dispatch of query: the adapter call the decision leads to.          *)
(***************************************************************************)
\* get_pages: analysis.get("space_key", self.confluence.default_space)
PagesSpaceKey(a) == DictGet(a, "space_key", default_space)

\* search: analysis.get("search_query", user_query)
SearchQuery(a, q) == DictGet(a, "search_query", S(q))

GetSpacesCall(limit, br) == [op |-> "get_spaces", limit |-> limit, branch |-> br]
GetPagesCall(k, limit) ==
    [op |-> "get_pages_from_space", space_key |-> k, limit |-> limit, branch |-> "pages"]
SearchCall(query, k, n, br) ==
    [op |-> "search_content", query |-> query, space_key |-> k, max_results |-> n,
     cql |-> CqlQuery(query, k), branch |-> br]

\* AdapterCall whose fallback branch reads the decision as the search branch does
AdapterCallFallbackReadsDecision(a, act, q) ==
    IF act = S("get_spaces")
    THEN GetSpacesCall(DictGet(a, "max_results", I(SpacesDefaultLimit)), "spaces")
    ELSE IF act = S("get_pages")
    THEN IF Truthy(PagesSpaceKey(a))
         THEN GetPagesCall(PagesSpaceKey(a), DictGet(a, "max_results", I(PagesDefaultLimit)))
         ELSE GetSpacesCall(I(SpacesDefaultLimit), "no_space_key")
    ELSE IF act = S("search")
    THEN SearchCall(SearchQuery(a, q), DictGet(a, "space_key", PyNone),
                    DictGet(a, "max_results", I(SearchDefaultLimit)), "search")
    ELSE SearchCall(SearchQuery(a, q), DictGet(a, "space_key", PyNone),
                    DictGet(a, "max_results", I(SearchDefaultLimit)), "general")

AdapterCall(a, act, q) ==
    IF act = S("get_spaces")
    THEN GetSpacesCall(DictGet(a, "max_results", I(SpacesDefaultLimit)), "spaces")
    ELSE IF act = S("get_pages")
    THEN IF Truthy(PagesSpaceKey(a))
         THEN GetPagesCall(PagesSpaceKey(a), DictGet(a, "max_results", I(PagesDefaultLimit)))
         ELSE GetSpacesCall(I(SpacesDefaultLimit), "no_space_key")
    ELSE IF act = S("search")
    THEN SearchCall(SearchQuery(a, q), DictGet(a, "space_key", PyNone),
                    DictGet(a, "max_results", I(SearchDefaultLimit)), "search")
    ELSE SearchCall(S(q), PyNone, I(SearchDefaultLimit), "general")

\* what the content source may answer to a call
AnswersTo(call) ==
    CASE call.op = "get_spaces" -> SpaceAnswers
      [] call.op = "get_pages_from_space" -> PageAnswers
      [] OTHER -> HitAnswers

Invoke(call, remote) ==
    CASE call.op = "get_spaces" -> GetSpaces(call.limit, remote)
      [] call.op = "get_pages_from_space" ->
           GetPagesFromSpace(call.space_key, call.limit, remote)
      [] OTHER -> SearchContent(call.query, call.space_key, call.max_results, remote)

\* the data block of a branch
DataBlock(br, records, call) ==
    CASE br = "spaces" -> FormatSpaces(records)
      [] br = "pages" -> FormatPages(records, call.space_key)
      [] br = "no_space_key" -> NoSpaceKeyMessage \o SpaceLines(records, 1)
      [] OTHER -> FormatSearchResults(records)

(***************************************************************************)
(* Initial state: a ConfluenceConnector has been constructed from the      *)
(* environment (no client yet); the agent is not constructed yet.          *)
(***************************************************************************)
Unset == [t |-> "unset"]
NoResult == [kind |-> "none", of |-> "", val |-> PyNone]

Init ==
    /\ url \in BaseUrls
    /\ default_space \in DefaultSpaces
    /\ confluence = 0
    /\ created = 0
    /\ agent = FALSE
    /\ model = ""
    /\ client = 0
    /\ pc = "idle"
    /\ user_query = ""
    /\ analysis_response = Unset
    /\ analysis = Unset
    /\ action = Unset
    /\ fetched = <<>>
    /\ branch = ""
    /\ confluence_data = ""
    /\ error_msg = ""
    /\ raised_by = "none"
    /\ result = NoResult
    /\ steps = <<>>
    /\ calls = <<>>
    /\ classify_calls = 0
    /\ synth_calls = 0
    /\ n_calls = 0
    /\ total_classify = 0
    /\ total_synth = 0
    /\ total_data = 0

\* between two top-level calls
Idle == pc \in {"idle", "done", "failed"}

\* the adapter after an operation that gave out
AdapterAfter(out) ==
    /\ confluence' = out.handle
    /\ created' = IF out.handle # confluence THEN created + 1 ELSE created
    /\ UNCHANGED <<url, default_space>>

\* a new top-level call: the record of the last query is dropped
NewRecord ==
    /\ error_msg' = ""
    /\ raised_by' = "none"
    /\ steps' = <<>>
    /\ calls' = <<>>
    /\ classify_calls' = 0
    /\ synth_calls' = 0

(***************************************************************************)
(* ConfluenceGenAIAgent.__init__: the model name, the model client, the    *)
(* adapter (newly constructed, nothing called on it yet) and its           *)
(* connect(); when connect() raises so does __init__.                      *)
(***************************************************************************)
AgentInit ==
    /\ ~agent
    /\ Idle
    /\ n_calls = 0
    /\ confluence = 0
    /\ \E m \in ModelNames, remote \in ConnectAnswers :
         LET out == Connect(remote)
         IN  /\ AdapterAfter(out)
             /\ IF out.raised
                THEN /\ result' = [kind |-> "raise", of |-> "init", val |-> S(out.err)]
                     /\ UNCHANGED agentVars
                ELSE /\ result' = [kind |-> "return", of |-> "init", val |-> PyNone]
                     /\ agent' = TRUE
                     /\ model' = m
                     /\ client' = 1
    /\ UNCHANGED <<pc, localVars, error_msg, raised_by, steps, calls, classify_calls,
                   synth_calls, totalVars>>

(***************************************************************************)
(* ConfluenceGenAIAgent.query, one action per step of its body.            *)
(***************************************************************************)
StartQuery ==
    /\ agent
    /\ Idle
    /\ n_calls < MaxCalls
    /\ n_calls' = n_calls + 1
    /\ \E q \in UserQueries : user_query' = q
    /\ pc' = "classifying"
    /\ result' = NoResult
    /\ NewRecord
    /\ UNCHANGED <<adapterVars, agentVars, analysis_response, analysis, action, fetched,
                   branch, confluence_data, total_classify, total_synth, total_data>>

\* "return answer": query returns and its locals are gone
ReturnAnswer(answer) ==
    /\ result' = [kind |-> "return", of |-> "query", val |-> S(answer)]
    /\ user_query' = ""
    /\ analysis_response' = Unset
    /\ analysis' = Unset
    /\ action' = Unset
    /\ fetched' = <<>>
    /\ branch' = ""
    /\ confluence_data' = ""

\* Except with the error logged and the body going on to the synthesis
ExceptSwallowed(by, e) ==
    /\ pc' = "synthesizing"
    /\ error_msg' = e
    /\ raised_by' = by
    /\ UNCHANGED <<steps, result, localVars>>

\* Except with the exception handed on to the caller of query
ExceptPropagates(by, e) ==
    /\ pc' = "failed"
    /\ error_msg' = e
    /\ raised_by' = by
    /\ steps' = Append(steps, "failed")
    /\ result' = [kind |-> "raise", of |-> "query", val |-> S(e)]
    /\ UNCHANGED localVars

\* Except with the body of query run again from its first step
ExceptRetries(by, e) ==
    /\ pc' = "classifying"
    /\ error_msg' = e
    /\ raised_by' = "none"
    /\ UNCHANGED <<steps, result, localVars>>

\* an exception with text e raised at step by: the except branch maps the
\* text to the answer query returns
Except(by, e) ==
    /\ pc' = "failed"
    /\ error_msg' = e
    /\ raised_by' = by
    /\ steps' = Append(steps, "failed")
    /\ ReturnAnswer(ErrorAnswers[e])

\* step 1, the classification call
Classify ==
    /\ pc = "classifying"
    /\ classify_calls' = classify_calls + 1
    /\ total_classify' = total_classify + 1
    /\ \/ \E c \in ClassifierContents :
            /\ analysis_response' = c
            /\ pc' = "parsing"
            /\ steps' = Append(steps, "classified")
            /\ UNCHANGED <<user_query, analysis, action, fetched, branch, confluence_data,
                           error_msg, raised_by, result>>
       \/ \E e \in ModelErrors : Except("classify", e)
    /\ UNCHANGED <<adapterVars, agentVars, calls, synth_calls, n_calls, total_synth,
                   total_data>>

\* json.loads of the classifier's content and the read of the action
Parse ==
    /\ pc = "parsing"
    /\ LET r == JsonLoads(analysis_response)
       IN  IF r.raised
           THEN Except("parse", r.err)
           ELSE /\ analysis' = r.val
                /\ action' = ActionOf(r.val)
                /\ analysis_response' = Unset
                /\ pc' = "dispatching"
                /\ steps' = Append(steps, "parsed")
                /\ UNCHANGED <<user_query, fetched, branch, confluence_data, error_msg,
                               raised_by, result>>
    /\ UNCHANGED <<adapterVars, agentVars, calls, classify_calls, synth_calls, totalVars>>

\* step 2, the adapter call of the branch the action selects; the decision
\* is not read again (the space key of the pages branch is in the call)
Dispatch ==
    /\ pc = "dispatching"
    /\ LET call == AdapterCall(analysis, action, user_query)
       IN  \E remote \in AnswersTo(call) :
             LET out == Invoke(call, remote)
             IN  /\ AdapterAfter(out)
                 /\ calls' = Append(calls, call)
                 /\ total_data' = total_data + 1
                 /\ IF out.raised
                    THEN Except("dispatch", out.err)
                    ELSE /\ fetched' = out.val
                         /\ branch' = call.branch
                         /\ confluence_data' =
                              IF call.branch = "no_space_key" THEN NoSpaceKeyMessage ELSE ""
                         /\ analysis' = Unset
                         /\ action' = Unset
                         /\ pc' = "formatting"
                         /\ steps' = Append(steps, "dispatched")
                         /\ UNCHANGED <<user_query, analysis_response, error_msg, raised_by,
                                        result>>
    /\ UNCHANGED <<agentVars, classify_calls, synth_calls, n_calls, total_classify,
                   total_synth>>

\* the formatter of the branch
Format ==
    /\ pc = "formatting"
    /\ confluence_data' = DataBlock(branch, fetched, calls[Len(calls)])
    /\ fetched' = <<>>
    /\ pc' = "synthesizing"
    /\ steps' = Append(steps, "formatted")
    /\ UNCHANGED <<adapterVars, agentVars, user_query, analysis_response, analysis, action,
                   branch, error_msg, raised_by, result, calls, classify_calls,
                   synth_calls, totalVars>>

\* step 3, the synthesis call, and the return of its text
Synthesize ==
    /\ pc = "synthesizing"
    /\ synth_calls' = synth_calls + 1
    /\ total_synth' = total_synth + 1
    /\ \/ \E a \in ModelAnswers :
            /\ pc' = "done"
            /\ steps' = steps \o <<"synthesized", "done">>
            /\ ReturnAnswer(a)
            /\ UNCHANGED <<error_msg, raised_by>>
       \/ \E e \in ModelErrors : Except("synthesize", e)
    /\ UNCHANGED <<adapterVars, agentVars, calls, classify_calls, n_calls, total_classify,
                   total_data>>

QueryStep == Classify \/ Parse \/ Dispatch \/ Format \/ Synthesize

(***************************************************************************)
(* The adapter's operations called directly, between queries.              *)
(***************************************************************************)
Direct(name, out) ==
    /\ Idle
    /\ n_calls < MaxCalls
    /\ n_calls' = n_calls + 1
    /\ pc' = "idle"
    /\ AdapterAfter(out)
    /\ result' = IF out.raised
                 THEN [kind |-> "raise", of |-> name, val |-> S(out.err)]
                 ELSE [kind |-> "return", of |-> name, val |-> out.val]
    /\ NewRecord
    /\ UNCHANGED <<agentVars, localVars, total_classify, total_synth, total_data>>

PageIds == {"101"}
Titles == {"Deploy guide"}

CallGetPageContent ==
    \E id \in PageIds, remote \in OnePageAnswers :
      Direct("get_page_content", GetPageContent(S(id), remote))

CallGetPageByTitle ==
    \E title \in Titles, remote \in OnePageAnswers :
      Direct("get_page_by_title", GetPageByTitle(S("DOCS"), S(title), remote))

CallGetSpaces ==
    \E remote \in SpaceAnswers :
      Direct("get_spaces", GetSpaces(I(SpacesDefaultLimit), remote))

\* get_pages_from_space called on the adapter
CallGetPagesFromSpace ==
    \E remote \in PageAnswers :
      Direct("get_pages_from_space",
             GetPagesFromSpace(S("DOCS"), I(PagesDefaultLimit), remote))

\* ConfluenceGenAIAgent.search(query): search_content with no space key
CallSearch ==
    /\ agent
    /\ \E q \in UserQueries, remote \in HitAnswers :
         Direct("search", SearchContent(S(q), PyNone, I(SearchDefaultLimit), remote))

Next ==
    \/ AgentInit
    \/ StartQuery
    \/ Classify
    \/ Parse
    \/ Dispatch
    \/ Format
    \/ Synthesize
    \/ CallGetPageContent
    \/ CallGetPageByTitle
    \/ CallGetSpaces
    \/ CallGetPagesFromSpace
    \/ CallSearch

Spec == Init /\ [][Next]_vars

(***************************************************************************)
(* Properties.                                                             *)
(***************************************************************************)
FullOrder == <<"classified", "parsed", "dispatched", "formatted", "synthesized", "done">>

IsPrefix(a, b) == Len(a) <= Len(b) /\ SubSeq(b, 1, Len(a)) = a

Running == pc \in {"classifying", "parsing", "dispatching", "formatting", "synthesizing"}

\* C1: the steps of a query happen in the order classify, parse, dispatch,
\* format, synthesize, return.  The synthesis call is made only after the
\* classifier's response was parsed and the adapter call returned, the
\* synthesized text is returned only after the synthesis call returned, and a
\* failure at a step ends the query as failed with no later step executed.
C1_StepOrder ==
    /\ \/ IsPrefix(steps, FullOrder)
       \/ \E n \in 0..4 : steps = SubSeq(FullOrder, 1, n) \o <<"failed">>
    /\ pc = "classifying" => steps = <<>> /\ classify_calls = 0
    /\ pc = "parsing" => steps = SubSeq(FullOrder, 1, 1)
    /\ pc = "dispatching" => steps = SubSeq(FullOrder, 1, 2)
    /\ pc = "formatting" => steps = SubSeq(FullOrder, 1, 3)
    /\ pc = "synthesizing" => steps = SubSeq(FullOrder, 1, 4)
    /\ pc = "done" => steps = FullOrder /\ raised_by = "none"
    /\ pc = "failed" <=> raised_by # "none"
    /\ steps # <<>> => classify_calls = 1
    /\ Len(calls) > 0 => IsPrefix(SubSeq(FullOrder, 1, 2), steps)
    /\ synth_calls > 0 => IsPrefix(SubSeq(FullOrder, 1, 4), steps) /\ Len(calls) = 1
    /\ raised_by = "classify" => steps = <<"failed">> /\ calls = <<>> /\ synth_calls = 0
    /\ raised_by = "parse" =>
         steps = <<"classified", "failed">> /\ calls = <<>> /\ synth_calls = 0
    /\ raised_by = "dispatch" =>
         steps = <<"classified", "parsed", "failed">> /\ synth_calls = 0
    /\ raised_by = "synthesize" => steps = SubSeq(FullOrder, 1, 4) \o <<"failed">>

C1_Witness == pc = "done" /\ steps = FullOrder /\ Len(calls) = 1 /\ synth_calls = 1

\* C2: whatever fails, a query ends by returning a string: in every step of
\* a running query a next step is possible, a finished query has returned a
\* string, and a failed one the answer its error text maps to; no query hands
\* an exception to its caller.
C2_AlwaysAnswers ==
    /\ Running => ENABLED QueryStep
    /\ pc \in {"done", "failed"} =>
         result.of = "query" /\ result.kind = "return" /\ result.val.t = "str"
    /\ result.of = "query" => result.kind = "return"
    /\ pc = "failed" => result.val = S(ErrorAnswer(error_msg))

C2_Witness ==
    /\ pc = "failed"
    /\ raised_by = "parse"
    /\ result.kind = "return"
    /\ result.val = S(GenericPrefix \o error_msg)

ModelCallRaisedQuota ==
    /\ pc = "failed"
    /\ raised_by \in {"classify", "synthesize"}
    /\ Contains(error_msg, "insufficient_quota")

C4_AdapterErrorIsGeneric ==
    pc = "failed" /\ raised_by = "dispatch" =>
      /\ result.val = S(GenericPrefix \o error_msg)
      /\ result.val \notin {S(QuotaMessage), S(AuthMessage), S(ModelMessage)}

\* the call a step has just added to calls
Made == calls'[Len(calls')]

OneCallMade == Len(calls') = Len(calls) + 1 /\ SubSeq(calls', 1, Len(calls)) = calls

\* C5 as claimed: the space key of get_pages is the decision's when it
\* carries one, else the configured default space when there is one, and only
\* with neither are the spaces listed instead of the pages.
C5_SpaceKeyResolution ==
    [][ pc = "dispatching" /\ action = S("get_pages") =>
          /\ OneCallMade
          /\ IF Truthy(analysis.space_key)
             THEN Made.op = "get_pages_from_space" /\ Made.space_key = analysis.space_key
             ELSE IF Truthy(default_space)
             THEN Made.op = "get_pages_from_space" /\ Made.space_key = default_space
             ELSE Made.op = "get_spaces" /\ Made.branch = "no_space_key" ]_vars

\* one line per space, written from the last space back
RECURSIVE ExpectedSpaceLines(_, _)
ExpectedSpaceLines(spaces, n) ==
    IF n = 0 THEN ""
    ELSE ExpectedSpaceLines(spaces, n - 1)
           \o "- " \o (IF spaces[n].name.t = "str" THEN spaces[n].name.s ELSE "None")
           \o " (Key: " \o (IF spaces[n].key.t = "str" THEN spaces[n].key.s ELSE "None")
           \o ")\n"

\* C6: for get_pages with the space key null or absent and no default space,
\* the dispatch calls get_spaces once and get_pages_from_space never, no later
\* step of the query calls the adapter, and the data block given to the
\* synthesis is the "Space key not specified" message followed by one line
\* per space returned.
C6_NoSpaceKey ==
    /\ [][ /\ pc = "dispatching"
           /\ action = S("get_pages")
           /\ analysis.space_key.t \in {"absent", "none"}
           /\ ~Truthy(default_space)
           => /\ calls' = <<GetSpacesCall(I(100), "no_space_key")>>
              /\ pc' = "formatting" => branch' = "no_space_key" ]_vars
    /\ [][ pc = "formatting" /\ branch = "no_space_key" =>
             /\ pc' = "synthesizing"
             /\ calls' = calls
             /\ confluence_data' =
                  "Space key not specified. Available spaces:\n"
                    \o ExpectedSpaceLines(fetched, Len(fetched)) ]_vars
    /\ [][ pc = "synthesizing" => calls' = calls ]_vars

C6_Witness ==
    /\ pc = "synthesizing"
    /\ branch = "no_space_key"
    /\ ~Truthy(default_space)
    /\ Len(calls) = 1
    /\ calls[1].op = "get_spaces"
    /\ confluence_data =
         "Space key not specified. Available spaces:\n"
           \o "- Documentation (Key: DOCS)\n- None (Key: TMP)\n"

\* C7 as claimed: search is invoked with the decision's search_query, or the
\* user's text when the decision has none (absent, null or empty), with the
\* decision's space_key, and with its max_results or 20.
C7_SearchArguments ==
    [][ pc = "dispatching" /\ action = S("search") =>
          /\ OneCallMade
          /\ Made.op = "search_content"
          /\ Made.query = (IF Truthy(analysis.search_query) THEN analysis.search_query
                           ELSE S(user_query))
          /\ Made.space_key = DictGet(analysis, "space_key", PyNone)
          /\ Made.max_results = DictGet(analysis, "max_results", I(20)) ]_vars

\* C8: for an action that is "general", missing or not one of get_spaces,
\* get_pages and search, the dispatch makes exactly one call, search_content
\* with the user's text, no space key and max_results 20, whatever the
\* decision's search_query, space_key and max_results are.
C8_FallbackSearch ==
    [][ pc = "dispatching" /\ action \notin {S("get_spaces"), S("get_pages"), S("search")} =>
          /\ Len(calls') = 1
          /\ Made.op = "search_content"
          /\ Made.query = S(user_query)
          /\ Made.space_key = PyNone
          /\ Made.max_results = I(20)
          /\ Made.cql = "text ~ \"" \o user_query \o "\"" ]_vars

C8_Witness ==
    /\ pc = "formatting"
    /\ branch = "general"
    /\ Len(calls) = 1
    /\ calls[1].op = "search_content"
    /\ calls[1].query = S(user_query)
    /\ calls[1].max_results = I(20)

\* no '<' of s has a '>' behind it
NoTagLeft(s) ==
    ~ \E i \in 1..Len(s) : Ch(s, i) = "<" /\ \E j \in (i + 1)..Len(s) : Ch(s, j) = ">"

\* C9 as claimed: the snippet of every search hit holds no '<' followed
\* later by a '>' and is at most 300 characters long.
C9_SnippetHasNoTag ==
    pc = "formatting" /\ branch \in {"search", "general"} =>
      \A i \in 1..Len(fetched) :
        NoTagLeft(fetched[i].content.s) /\ Len(fetched[i].content.s) <= 300

\* C10 as claimed: get_page_content and get_page_by_title never raise.
C10_PageLookupsNeverRaise ==
    result.of \in {"get_page_content", "get_page_by_title"} => result.kind = "return"

\* the formatter a branch of the dispatch uses, "" for the branch with none
FormatterOf(br) ==
    CASE br = "spaces" -> "spaces"
      [] br = "pages" -> "pages"
      [] br \in {"search", "general"} -> "search"
      [] OTHER -> ""

\* the first line of a formatter's block
HeaderOf(br, call) ==
    CASE br = "spaces" -> "Available Confluence Spaces:\n"
      [] br = "pages" -> "Pages from space '" \o PyStr(call.space_key) \o "':\n"
      [] OTHER -> "Search Results:\n"

\* the entries of the first n records, the n-th written last
RECURSIVE ExpectedEntries(_, _, _)
ExpectedEntries(kind, rs, n) ==
    IF n = 0 THEN ""
    ELSE ExpectedEntries(kind, rs, n - 1) \o Entry(kind, n, rs[n])

\* the positions of block where the number line of entry i starts
NumberLines(block, i) ==
    LET mark == "\n" \o ToString(i) \o ". "
    IN  { p \in 1..(Len(block) - Len(mark) + 1) : SubSeq(block, p, p + Len(mark) - 1) = mark }

\* C11: for a non-empty list of records each formatter writes its header
\* and then one entry per record, the i-th entry numbered i and rendering the
\* i-th record; the block holds the number lines 1..n once each, in rising
\* order, and no number line n + 1.
C11_NumberedEntries ==
    [][ pc = "formatting" /\ FormatterOf(branch) # "" /\ fetched # <<>> =>
          LET n == Len(fetched)
              block == confluence_data'
          IN  /\ block = HeaderOf(branch, calls[Len(calls)])
                          \o ExpectedEntries(FormatterOf(branch), fetched, n)
              /\ \A i \in 1..n : Cardinality(NumberLines(block, i)) = 1
              /\ \A i \in 1..(n - 1) :
                    \A p \in NumberLines(block, i), q \in NumberLines(block, i + 1) : p < q
              /\ NumberLines(block, n + 1) = {} ]_vars

C11_Witness ==
    /\ pc = "synthesizing"
    /\ branch = "search"
    /\ Contains(confluence_data, "\n1. Title: None\n")
    /\ Contains(confluence_data, "\n2. Title: Deploy guide\n")

\* the configured base URL written without its trailing slash
SlashlessBase == CHOOSE b \in BaseUrls : b \o "/" \in BaseUrls

\* the relative web link the content source gives for the page with this id
LinkOf(id) ==
    LET raw == CHOOSE r \in RawPages \cup RawHits : r.id = id
    IN  IF raw.webui.t = "str" THEN raw.webui.s ELSE ""

\* C12: with the base URL b configured with or without a trailing slash,
\* the url of every record of get_pages_from_space and search_content, and of
\* the page get_page_by_title returns, is b followed by the page's relative
\* web link.
C12_UrlIgnoresTrailingSlash ==
    /\ url \in {SlashlessBase, SlashlessBase \o "/"}
    /\ pc = "formatting" /\ branch \in {"pages", "search", "general"} =>
         \A i \in 1..Len(fetched) :
           fetched[i].url = S(SlashlessBase \o LinkOf(fetched[i].id))
    /\ result.of = "get_page_by_title" /\ result.kind = "return"
         /\ "url" \in DOMAIN result.val =>
           result.val.url = S(SlashlessBase \o LinkOf(result.val.id))

C12_Witness ==
    /\ url = SlashlessBase \o "/"
    /\ pc = "formatting"
    /\ branch = "pages"
    /\ Len(fetched) = 2
    /\ fetched[1].url = S(SlashlessBase \o "/spaces/DOCS/pages/101")
    /\ fetched[2].url = S(SlashlessBase)

\* the remote calls of the query in progress or last finished
CallsOfQuery == <<classify_calls, synth_calls, Len(calls)>>

\* the remote calls of all queries so far
CallsOfRun == <<total_classify, total_synth, total_data>>

\* C13: no remote call is made twice in a query: the classification call is
\* made once (it has been made as soon as the query is past its first step),
\* the synthesis call at most once and only after the one data call, and at
\* most one data call, which is get_spaces, get_pages_from_space or
\* search_content.  Over a run each total grows exactly when the count of the
\* query in progress grows, by the same amount, so the totals are the sums of
\* the counts of the queries; a new top-level call starts from counts of zero
\* and leaves the totals alone.
C13_NoRetry ==
    /\ [](/\ classify_calls <= 1
          /\ synth_calls <= 1
          /\ Len(calls) <= 1
          /\ pc \in {"parsing", "dispatching", "formatting", "synthesizing", "done",
                      "failed"} => classify_calls = 1
          /\ pc = "classifying" => CallsOfQuery = <<0, 0, 0>>
          /\ synth_calls = 1 => Len(calls) = 1
          /\ \A i \in 1..Len(calls) :
                calls[i].op \in {"get_spaces", "get_pages_from_space", "search_content"}
          /\ total_classify <= n_calls
          /\ total_synth <= total_classify
          /\ total_data <= total_classify)
    /\ [][ IF pc \in {"done", "failed"}
           THEN CallsOfQuery' = <<0, 0, 0>> /\ CallsOfRun' = CallsOfRun
           ELSE \A k \in 1..3 : CallsOfRun'[k] - CallsOfRun[k] = CallsOfQuery'[k] - CallsOfQuery[k]
         ]_vars

C13_Witness ==
    /\ pc = "failed"
    /\ raised_by = "dispatch"
    /\ CallsOfQuery = <<1, 0, 1>>
    /\ CallsOfRun = <<2, 1, 2>>

\* C14: a client handle is created only when the adapter has none, by the
\* lazy connect of a data operation or by the construction of the agent;
\* once there is a handle no operation and no query replaces it.  No step
\* changes the adapter's url or default space, and once the agent is
\* constructed none changes its model name or its model client.
C14_HandleReused ==
    /\ [](confluence \in {0, created} /\ created <= 1 /\ (agent => confluence # 0))
    /\ [][ /\ confluence # 0 => confluence' = confluence /\ created' = created
           /\ created' # created =>
                confluence = 0 /\ created' = created + 1 /\ confluence' = created'
           /\ url' = url
           /\ default_space' = default_space
           /\ agent => agent' /\ model' = model /\ client' = client ]_vars

C14_Witness ==
    /\ agent
    /\ confluence = 1
    /\ created = 1
    /\ n_calls = 2
    /\ total_data = 1
    /\ result.of = "get_page_content"
    /\ result.kind = "return"
    /\ result.val.t = "str"

\* the text a formatter embeds a preview of, and the label it writes before it
PreviewText(kind, r) == IF kind = "spaces" THEN r.description ELSE r.content

PreviewLabel(kind) ==
    CASE kind = "spaces" -> "   Description: "
      [] kind = "pages" -> "   Preview: "
      [] OTHER -> "   Content: "

\* the preview line of text cut to len, the marker written only after a cut
PreviewLine(kind, text, len) ==
    PreviewLabel(kind) \o Take(text, len)
      \o (IF Len(text) > len THEN "..." ELSE "") \o "\n"

\* C15 as claimed: each formatter cuts an embedded preview to a fixed length
\* between 150 and 200 characters and writes "..." after it when the text
\* was longer than that length, and not when the text fits.
C15_PreviewEllipsis ==
    [][ pc = "formatting" /\ FormatterOf(branch) # "" /\ fetched # <<>> =>
          \E len \in 150..200 :
            \A i \in 1..Len(fetched) :
              LET text == PreviewText(FormatterOf(branch), fetched[i])
              IN  Truthy(text) =>
                    Contains(confluence_data',
                             PreviewLine(FormatterOf(branch), text.s, len)) ]_vars

=============================================================================
